---- MODULE Spec2Model ----
(***************************************************************************)
(* Heka::IOBridge (HekaIOBridge.cpp / HekaIOBridge.h): the block transfer  *)
(* loop ReadWrite, its status check CheckStatus and the vendor calls it    *)
(* issues against one ITC device.                                          *)
(*                                                                         *)
(* One behaviour is one ReadWrite call.  Init is the moment of entry, with *)
(* the bridge constructed and the caller's arguments chosen; every action  *)
(* is one stretch of the function's code.  Cancel is the only other actor: *)
(* the owner of the CancellationToken.                                     *)
(*                                                                         *)
(* Sample values are not modelled, sample POSITIONS are: inLog and outLog  *)
(* record, per Transfer that moved data, the block length of every channel *)
(* descriptor; the k-th entry was transferred at offset (k-1)*transferBlock*)
(* of the scratch vector (lines 224, 257 with lines 232, 266).             *)
(***************************************************************************)
EXTENDS Integers, Sequences, FiniteSets, TLC

\* ------------------------------------------------------------------ constants

\* IOBridge::TRANSFER_BLOCK_SAMPLES
TRANSFER_BLOCK_SAMPLES == 512

\* Success code of the vendor library (0acqerrors.h).
ACQ_SUCCESS == 0

\* Device-family channel capacities (sizes of the descriptor tables).  itcmm.h
\* sets them; the model runs them at a small scale.
ITC00_NUMBEROFOUTPUTS == 3

ITC00_NUMBEROFINPUTS == 3

\* The device delivers at most this many input blocks during one call.
MaxInBlocks == 3

\* ------------------------------------------------------------------ domains

ErrCodes == {ACQ_SUCCESS, ACQ_SUCCESS + 1}

\* nsamples arguments: negative, empty, below one block, one block, and a
\* request whose tail is shorter than a block.
NSamplesChoices == {-1, 0, 300, TRANSFER_BLOCK_SAMPLES, 1000}

\* ChannelIdentifier.Samples of the caller's list on entry: a fresh identifier,
\* or one left behind by an earlier one-block call (line 236 writes the count
\* back into the caller's list).
EntrySamples == {0, TRANSFER_BLOCK_SAMPLES}

\* What the device may report in a descriptor's Value for a block size B.
Answers(B) == {0, B - 1, B, B + 1}

RunningModes == SUBSET {"RUN_STATE", "ERROR_STATE"}

Overflows ==
    {{}, {"ITC_WRITE_UNDERRUN_H"}, {"ITC_WRITE_UNDERRUN_S"},
     {"ITC_READ_OVERFLOW_H"}, {"ITC_READ_OVERFLOW_S"}, {"OTHER"}}

Statuses == [RunningMode : RunningModes, Overflow : Overflows]

NoStatus == [RunningMode |-> {"-"}, Overflow |-> {"-"}]

NoQuery == [dir |-> "-", raw |-> <<>>, code |-> ACQ_SUCCESS]

NoException == [msg |-> "-", err |-> ACQ_SUCCESS]

\* Preload and Write, the two public entries of WriteOutput.
WriteOps == {"Preload", "Write"}

NotCalled == [pc |-> "none", exception |-> NoException, calls |-> <<>>,
              codes |-> <<>>, outputData |-> <<>>]

\* Array lengths of the mapping handed to Preload / Write: empty, below one
\* block, and longer than a block.
WriteLengths == {0, 300, 1000}

\* ------------------------------------------------------------------ helpers

Min(a, b) == IF a < b THEN a ELSE b

\* Numeric values of the channel types (itcmm.h: INPUT_GROUP is D2H,
\* OUTPUT_GROUP is H2D).
GroupCode(t) == IF t = "INPUT_GROUP" THEN 0 ELSE 1

\* Bitwise exclusive or of two naturals.
RECURSIVE Xor(_, _)
Xor(a, b) ==
    IF a = 0 /\ b = 0
       THEN 0
       ELSE (((a % 2) + (b % 2)) % 2) + (2 * Xor(a \div 2, b \div 2))

\* Equals comparing the Samples property as well.
EqualsWithSamples(c, other) ==
    /\ other.ChannelNumber = c.ChannelNumber
    /\ other.ChannelType = c.ChannelType
    /\ other.Samples = c.Samples

\* ChannelIdentifier::Equals (HekaIOBridge.h lines 32-43), for an argument
\* that is a ChannelIdentifier.
Equals(c, other) ==
    /\ other.ChannelNumber = c.ChannelNumber
    /\ other.ChannelType = c.ChannelType

\* ChannelIdentifier::GetHashCode (HekaIOBridge.h lines 45-48); the hash code
\* of a UInt16 is its value.
GetHashCode(c) == Xor(c.ChannelNumber, GroupCode(c.ChannelType))

\* Dictionary<ChannelIdentifier, ...>: a list of entries, each with the key
\* as stored, its hash code and the value.  An entry matches a key when the
\* hash codes agree and Equals says so.
Matches(e, key) == e.hash = GetHashCode(key) /\ Equals(e.key, key)

\* dict[key]: the values found (none, or one).
DictGet(dict, key) == {dict[j].value : j \in {k \in DOMAIN dict : Matches(dict[k], key)}}

\* dict[key] = value: replaces the value of the matching entry, whose stored
\* key stays, or adds an entry.
DictSet(dict, key, value) ==
    IF \E j \in DOMAIN dict : Matches(dict[j], key)
       THEN [j \in DOMAIN dict |->
                IF Matches(dict[j], key) THEN [dict[j] EXCEPT !.value = value]
                                         ELSE dict[j]]
       ELSE Append(dict, [key |-> key, hash |-> GetHashCode(key), value |-> value])

\* The abstraction of a ChannelIdentifier to what Equals and GetHashCode look
\* at: (number, type).
Ident(c) == <<c.ChannelNumber, c.ChannelType>>

InputId(n, s) == [ChannelNumber |-> n, ChannelType |-> "INPUT_GROUP", Samples |-> s]

VARIABLES
    pc,           \* where the call is: entry, head, status, poll, in, out,
                  \* returned, thrown, crashed
    maxInputs,    \* IOBridge::maxInputs
    maxOutputs,   \* IOBridge::maxOutputs
    nsamples,     \* argument
    output,       \* argument: Length of the array of each output key, in key order
    input,        \* argument: the caller's list of ChannelIdentifier
    token,        \* token->IsCancellationRequested
    nIn,
    nOut,
    transferBlock,
    inLog,        \* per input Transfer that moved data: Value of each descriptor
    outLog,       \* per output Transfer that moved data: Value of each descriptor
    result,       \* returned dictionary: Ident -> array length
    exception,    \* the HekaDAQException thrown
    calls,        \* vendor calls of the current iteration, in order
    hw,           \* some vendor call was issued during this call
    err,          \* the local err: the code the last vendor call of ReadWrite
                  \* returned into it
    status,       \* the status the last ITC_GetState filled in
    lastQuery,    \* the last ITC_GetDataAvailable of the iteration: direction,
                  \* Values the device reported, code returned
    entry,        \* Samples of each input identifier on entry
    phase,        \* before (no iteration begun), first, later
    cancelPhase,  \* phase in which cancellation was requested, or never
    exit,         \* how the loop was left: -, exhausted, cancelled
    wr            \* Preload and Write, each called once with the mapping
                  \* `output`: where the call is (entry, returned, thrown,
                  \* crashed; none when not called), its exception, its
                  \* vendor calls with the codes they returned, and its
                  \* descriptor table outputData

vars == <<pc, maxInputs, maxOutputs, nsamples, output, input, token, nIn, nOut,
          transferBlock, inLog, outLog, result, exception, calls, hw, err,
          status, lastQuery, entry, phase, cancelPhase, exit, wr>>

\* ------------------------------------------------------------------ entry

\* The bridge as constructed and the arguments as passed.  Output keys are the
\* channels 0..no-1 of OUTPUT_GROUP, input identifiers the channels 0..ni-1 of
\* INPUT_GROUP; bad > 0 gives output array number bad a length other than
\* nsamples.
Init ==
    \E ns \in NSamplesChoices,
       no \in 0..(ITC00_NUMBEROFOUTPUTS + 1),
       ni \in 0..(ITC00_NUMBEROFINPUTS + 1),
       mx \in {<<1, 1>>, <<ITC00_NUMBEROFINPUTS, ITC00_NUMBEROFOUTPUTS>>},
       es \in EntrySamples :
      \E bad \in 0..no :
        /\ pc = "entry"
        /\ maxInputs = mx[1]
        /\ maxOutputs = mx[2]
        /\ nsamples = ns
        /\ output = [i \in 1..no |-> IF i = bad THEN ns + 1 ELSE IF ns < 0 THEN 0 ELSE ns]
        /\ input = [i \in 1..ni |-> InputId(i - 1, es)]
        /\ entry = [i \in 1..ni |-> es]
        /\ token = FALSE
        /\ nIn = 0
        /\ nOut = 0
        /\ transferBlock = 0
        /\ inLog = <<>>
        /\ outLog = <<>>
        /\ result = <<>>
        /\ exception = NoException
        /\ calls = <<>>
        /\ hw = FALSE
        /\ err = ACQ_SUCCESS
        /\ status = NoStatus
        /\ lastQuery = NoQuery
        /\ phase = "before"
        /\ cancelPhase = "never"
        /\ exit = "-"
        /\ wr = [o \in WriteOps |-> NotCalled]

Throw(msg, code) ==
    /\ pc' = "thrown"
    /\ exception' = [msg |-> msg, err |-> code]

\* Precondition without its last check (lines 171-175 left out).
PreconditionNoLengthCheck ==
    IF nsamples < 0 THEN "nsamples may not be less than zero."
    ELSE IF Len(output) >= ITC00_NUMBEROFOUTPUTS THEN "Too many output channels"
    ELSE IF Len(input) >= ITC00_NUMBEROFINPUTS THEN "Too many input channels"
    ELSE IF Len(output) > maxOutputs
        THEN "Output stream number exceeds output stream availability."
    ELSE IF Len(input) > maxInputs
        THEN "Input stream count exceeds input stream availability."
    ELSE "ok"

\* Precondition with the capacity comparisons of lines 128 and 132 made strict
\* (a count equal to the capacity passes them).
PreconditionAdmitsCapacity ==
    IF nsamples < 0 THEN "nsamples may not be less than zero."
    ELSE IF Len(output) > ITC00_NUMBEROFOUTPUTS THEN "Too many output channels"
    ELSE IF Len(input) > ITC00_NUMBEROFINPUTS THEN "Too many input channels"
    ELSE IF Len(output) > maxOutputs
        THEN "Output stream number exceeds output stream availability."
    ELSE IF Len(input) > maxInputs
        THEN "Input stream count exceeds input stream availability."
    ELSE IF \E i \in DOMAIN output : output[i] # nsamples
        THEN "Output not correct length"
    ELSE "ok"

\* Lines 124-175: the message of the first failing check, "ok" when all pass.
Precondition ==
    IF nsamples < 0 THEN "nsamples may not be less than zero."
    ELSE IF Len(output) >= ITC00_NUMBEROFOUTPUTS THEN "Too many output channels"
    ELSE IF Len(input) >= ITC00_NUMBEROFINPUTS THEN "Too many input channels"
    ELSE IF Len(output) > maxOutputs
        THEN "Output stream number exceeds output stream availability."
    ELSE IF Len(input) > maxInputs
        THEN "Input stream count exceeds input stream availability."
    ELSE IF \E i \in DOMAIN output : output[i] # nsamples
        THEN "Output not correct length"
    ELSE "ok"

\* Lines 124-197: the checks, then the locals of the loop.
Validate ==
    /\ pc = "entry"
    /\ UNCHANGED wr
    /\ IF Precondition # "ok"
          THEN /\ Throw(Precondition, ACQ_SUCCESS)
               /\ UNCHANGED <<nIn, nOut, transferBlock>>
          ELSE /\ pc' = "head"
               /\ nIn' = 0
               /\ nOut' = 0
               /\ transferBlock' = Min(nsamples, TRANSFER_BLOCK_SAMPLES)
               /\ UNCHANGED exception
    /\ UNCHANGED <<maxInputs, maxOutputs, nsamples, output, input, token, inLog,
                   outLog, result, calls, hw, err, status, lastQuery, entry,
                   phase, cancelPhase, exit>>

\* ------------------------------------------------------------------ the loop

\* Line 199.
LoopCondition ==
    \/ (nOut < nsamples /\ Len(output) > 0)
    \/ (nIn < nsamples /\ Len(input) > 0)

\* BuildResult with the copy loop of line 274 started at the second channel.
BuildResultSkipsFirst ==
    [k \in {Ident(input[i]) : i \in DOMAIN input \ {1}} |->
        LET last == CHOOSE i \in DOMAIN input \ {1} :
                        /\ Ident(input[i]) = k
                        /\ \A j \in DOMAIN input \ {1} : Ident(input[j]) = k => j <= i
        IN  input[last].Samples]

\* Lines 271-284: result[input[i]] = array of input[i].Samples elements; a
\* later entry with an equal identifier replaces an earlier one.
BuildResult ==
    [k \in {Ident(input[i]) : i \in DOMAIN input} |->
        LET last == CHOOSE i \in DOMAIN input :
                        /\ Ident(input[i]) = k
                        /\ \A j \in DOMAIN input : Ident(input[j]) = k => j <= i
        IN  input[last].Samples]

\* Lines 271-284 on the dictionary itself: the entries after the first k
\* identifiers of the list were stored, each under the identifier as it is in
\* the list at that moment (Samples included).
RECURSIVE ResultEntries(_)
ResultEntries(k) ==
    IF k = 0
       THEN <<>>
       ELSE DictSet(ResultEntries(k - 1), input[k], input[k].Samples)

\* Line 277 reads inputSamples[i][j] for every j < input[i].Samples; the vector
\* holds 2*nsamples elements (line 186).
CopyOutOfBounds == \E i \in DOMAIN input : input[i].Samples > 2 * nsamples

\* The poll of line 201 skipped while no iteration has run (a poll placed at
\* the end of the loop body).
CancellationObservedLate == token /\ phase # "before"

\* The loop without lines 201-204: the token is never looked at.
CancellationIgnored == FALSE

\* The poll of line 201 with a timeout added: the loop is given up after its
\* first iteration.
CancellationObservedOrTimeout == token \/ phase = "later"

\* Line 201: the poll of the token.
CancellationObserved == token

\* Lines 199-204 and 271-284: the loop test and the cancellation poll; leaving
\* the loop builds the result.  A read past the scratch vector is undefined:
\* the call either crashes or returns what it read.
LoopHead ==
    /\ pc = "head"
    /\ UNCHANGED wr
    /\ IF LoopCondition /\ ~CancellationObserved
          THEN /\ pc' = "status"
               /\ phase' = IF phase = "before" THEN "first" ELSE phase
               /\ UNCHANGED <<result, exit>>
          ELSE /\ exit' = IF LoopCondition THEN "cancelled" ELSE "exhausted"
               /\ \/ pc' = "returned" /\ result' = BuildResult
                  \/ CopyOutOfBounds /\ pc' = "crashed" /\ UNCHANGED result
               /\ UNCHANGED phase
    /\ calls' = <<>>
    /\ status' = NoStatus
    /\ lastQuery' = NoQuery
    /\ UNCHANGED <<maxInputs, maxOutputs, nsamples, output, input, token, nIn, nOut,
                   transferBlock, inLog, outLog, exception, hw, err, entry,
                   cancelPhase>>

\* Fatal with the ERROR bit alone taken for fatal.
FatalOnAnyError(st) ==
    \/ ~("RUN_STATE" \in st.RunningMode)
    \/ "ERROR_STATE" \in st.RunningMode

\* Lines 99-101: the condition under which CheckStatus throws.
Fatal(st) ==
    \/ ~("RUN_STATE" \in st.RunningMode)
    \/ /\ "ERROR_STATE" \in st.RunningMode
       /\ st.Overflow \cap {"ITC_WRITE_UNDERRUN_H", "ITC_WRITE_UNDERRUN_S"} # {}
    \/ /\ "ERROR_STATE" \in st.RunningMode
       /\ st.Overflow \cap {"ITC_READ_OVERFLOW_H", "ITC_READ_OVERFLOW_S"} # {}

\* A fatal status answered by querying the status again.
OnFatalRetry == pc' = "status" /\ UNCHANGED exception

\* Lines 103-113: what CheckStatus does with a fatal status.
OnFatal == Throw("ITC not running", ACQ_SUCCESS)

\* Lines 92-114, called at line 206.
CheckStatus ==
    /\ pc = "status"
    /\ UNCHANGED wr
    /\ calls' = Append(calls, "QueryStatus")
    /\ hw' = TRUE
    /\ \E serr \in ErrCodes :
         IF serr # ACQ_SUCCESS
            THEN /\ Throw("ITC_GetState error", serr)
                 /\ UNCHANGED status
            ELSE \E st \in Statuses :
                   /\ status' = st
                   /\ IF Fatal(st)
                         THEN OnFatal
                         ELSE pc' = "poll" /\ UNCHANGED exception
    /\ UNCHANGED <<maxInputs, maxOutputs, nsamples, output, input, token, nIn, nOut,
                   transferBlock, inLog, outLog, result, err, lastQuery, entry,
                   phase, cancelPhase, exit>>

\* The loop body without its line 208: no ITC_UpdateNow is issued.
UpdateNowSkipped ==
    /\ pc = "poll"
    /\ UNCHANGED wr
    /\ pc' = "in"
    /\ status' = NoStatus
    /\ UNCHANGED <<maxInputs, maxOutputs, nsamples, output, input, token, nIn, nOut,
                   transferBlock, inLog, outLog, result, exception, calls, hw, err,
                   lastQuery, entry, phase, cancelPhase, exit>>

\* Line 208: ITC_UpdateNow; its return value is not looked at.
UpdateNow ==
    /\ pc = "poll"
    /\ UNCHANGED wr
    /\ pc' = "in"
    /\ calls' = Append(calls, "PollClock")
    /\ status' = NoStatus
    /\ UNCHANGED <<maxInputs, maxOutputs, nsamples, output, input, token, nIn, nOut,
                   transferBlock, inLog, outLog, result, exception, hw, err,
                   lastQuery, entry, phase, cancelPhase, exit>>

\* ClampIn leaving a partial block in the descriptor (line 218 left out).
ClampInPartial(v, B) == IF v >= B THEN B ELSE v

\* Lines 213-220: the Value an input descriptor is left with.
ClampIn(v, B) == IF v >= B THEN B ELSE 0

\* Lines 210-238.  The answer of ITC_GetDataAvailable is used whatever code
\* the call returned (err is assigned at line 210 and not tested); the raw
\* values of a failed query are whatever the library left in the descriptors.
\* A Transfer into a scratch vector that ends before nIn + transferBlock writes
\* past it: the call either crashes or goes on.  answers is the set of Values
\* the device may report in this step.
InputStepOn(answers) ==
    /\ pc = "in"
    /\ UNCHANGED wr
    /\ \E qerr \in ErrCodes, raw \in [DOMAIN input -> answers] :
        LET vals == [i \in DOMAIN input |-> ClampIn(raw[i], transferBlock)]
            inBlockAvailable == \E i \in DOMAIN input : raw[i] >= transferBlock
        IN  /\ inBlockAvailable => Len(inLog) < MaxInBlocks
            /\ lastQuery' = [dir |-> "in", raw |-> raw, code |-> qerr]
            /\ IF ~inBlockAvailable
                  THEN /\ pc' = "out"
                       /\ calls' = Append(calls, "QueryAvailableIn")
                       /\ err' = qerr
                       /\ UNCHANGED <<nIn, input, inLog, exception>>
                  ELSE /\ calls' = calls \o <<"QueryAvailableIn", "TransferIn">>
                       /\ \E xerr \in ErrCodes :
                            IF xerr # ACQ_SUCCESS
                               THEN /\ Throw("ITC_ReadWriteFIFO error", xerr)
                                    /\ err' = xerr
                                    /\ UNCHANGED <<nIn, input, inLog>>
                               ELSE /\ nIn' = nIn + transferBlock
                                    /\ input' = [i \in DOMAIN input |->
                                         [input[i] EXCEPT !.Samples = @ + vals[i]]]
                                    /\ inLog' = Append(inLog, vals)
                                    /\ err' = xerr
                                    /\ UNCHANGED exception
                                    /\ \/ pc' = "out"
                                       \/ /\ nIn + transferBlock > 2 * nsamples
                                          /\ pc' = "crashed"
    /\ hw' = TRUE
    /\ UNCHANGED <<maxInputs, maxOutputs, nsamples, output, token, nOut,
                   transferBlock, outLog, result, status, entry, phase,
                   cancelPhase, exit>>

InputStep == InputStepOn(Answers(transferBlock))

\* ClampOut without the cut of the last block (lines 246-248 left out).
ClampOutNoTail(v, B, n, length) == IF v >= B THEN B ELSE 0

\* Lines 243-253: the Value an output descriptor is left with.  Value is an
\* unsigned 32-bit field: once nOut has passed the array's Length, line 247
\* stores Length - nOut modulo 2^32, written here as the negative number it is
\* congruent to (nothing compares the field again before the next query
\* overwrites it).
ClampOut(v, B, n, length) ==
    IF v >= B
       THEN IF n + B >= length THEN length - n ELSE B
       ELSE 0

\* The output Transfer issued whenever a block is available (the test of line
\* 260 left out).
OutputTransferDueUnguarded(outBlockAvailable) == outBlockAvailable

\* Lines 255 and 260: the tests the output Transfer sits under.
OutputTransferDue(outBlockAvailable) == outBlockAvailable /\ nOut < nsamples

\* Lines 240-268, and the return to the loop test; answers as in InputStepOn.
OutputStepOn(answers) ==
    /\ pc = "out"
    /\ UNCHANGED wr
    /\ \E qerr \in ErrCodes, raw \in [DOMAIN output -> answers] :
        LET vals == [i \in DOMAIN output |->
                        ClampOut(raw[i], transferBlock, nOut, output[i])]
            outBlockAvailable == \E i \in DOMAIN output : raw[i] >= transferBlock
        IN  /\ lastQuery' = [dir |-> "out", raw |-> raw, code |-> qerr]
            /\ IF ~OutputTransferDue(outBlockAvailable)
                  THEN /\ pc' = "head"
                       /\ phase' = "later"
                       /\ calls' = Append(calls, "QueryAvailableOut")
                       /\ err' = qerr
                       /\ UNCHANGED <<nOut, outLog, exception>>
                  ELSE /\ calls' = calls \o <<"QueryAvailableOut", "TransferOut">>
                       /\ \E xerr \in ErrCodes :
                            IF xerr # ACQ_SUCCESS
                               THEN /\ Throw("ITC_ReadWriteFIFO error", xerr)
                                    /\ err' = xerr
                                    /\ UNCHANGED <<nOut, outLog, phase>>
                               ELSE /\ pc' = "head"
                                    /\ phase' = "later"
                                    /\ nOut' = nOut + transferBlock
                                    /\ outLog' = Append(outLog, vals)
                                    /\ err' = xerr
                                    /\ UNCHANGED exception
    /\ hw' = TRUE
    /\ UNCHANGED <<maxInputs, maxOutputs, nsamples, output, input, token, nIn,
                   transferBlock, inLog, result, status, entry, cancelPhase, exit>>

OutputStep == OutputStepOn(Answers(transferBlock))

\* The owner of the token requests cancellation, at any moment of the call.
Cancel ==
    /\ pc \in {"entry", "head", "status", "poll", "in", "out"}
    /\ UNCHANGED wr
    /\ ~token
    /\ token' = TRUE
    /\ cancelPhase' = phase
    /\ UNCHANGED <<pc, maxInputs, maxOutputs, nsamples, output, input, nIn, nOut,
                   transferBlock, inLog, outLog, result, exception, calls, hw,
                   err, status, lastQuery, entry, phase, exit>>

Next ==
    \/ Validate
    \/ LoopHead
    \/ CheckStatus
    \/ UpdateNow
    \/ InputStep
    \/ OutputStep
    \/ Cancel

Spec == Init /\ [][Next]_vars

\* ------------------------------------------------------------------ a device
\* that has a full block ready on every channel at every query

FullBlock(B) == {B, B + 1}

InputReady == InputStepOn(FullBlock(transferBlock))

OutputReady == OutputStepOn(FullBlock(transferBlock))

NextReady ==
    \/ Validate
    \/ LoopHead
    \/ CheckStatus
    \/ UpdateNow
    \/ InputReady
    \/ OutputReady
    \/ Cancel

SpecReady == Init /\ [][NextReady]_vars

\* ------------------------------------------------------------------ fairness

\* The calling thread keeps running (every step of the function that can be
\* taken is taken), and the device, queried again and again, sooner or later
\* reports a full block on every input channel and on every output channel.
SpecFair ==
    /\ Init
    /\ [][Next]_vars
    /\ WF_vars(Validate \/ LoopHead \/ CheckStatus \/ UpdateNow \/ InputStep \/ OutputStep)
    /\ SF_vars(InputReady)
    /\ SF_vars(OutputReady)

\* ------------------------------------------------------------------ Preload / Write

\* The mapping as passed to Preload and to Write: keys are the channels
\* 0..no-1 of OUTPUT_GROUP, `output` holds the Length of each key's array.
\* Both operations are called with it, once each, in either order.
InitWrite ==
    \E no \in 0..(ITC00_NUMBEROFOUTPUTS + 1) :
      \E lengths \in [1..no -> WriteLengths] :
        /\ output = lengths
        /\ wr = [o \in WriteOps |-> [NotCalled EXCEPT !.pc = "entry"]]
        /\ pc = "none"
        /\ maxInputs = ITC00_NUMBEROFINPUTS
        /\ maxOutputs = ITC00_NUMBEROFOUTPUTS
        /\ nsamples = 0
        /\ input = <<>>
        /\ entry = <<>>
        /\ token = FALSE
        /\ nIn = 0
        /\ nOut = 0
        /\ transferBlock = 0
        /\ inLog = <<>>
        /\ outLog = <<>>
        /\ result = <<>>
        /\ exception = NoException
        /\ calls = <<>>
        /\ hw = FALSE
        /\ err = ACQ_SUCCESS
        /\ status = NoStatus
        /\ lastQuery = NoQuery
        /\ phase = "before"
        /\ cancelPhase = "never"
        /\ exit = "-"

\* The preload flag set on every descriptor, whatever the argument.
CommandAlwaysPreload(preload) == {"PRELOAD_FIFO_COMMAND_EX"}

\* Lines 44 and 53-55: the Command field of a descriptor.
Command(preload) == IF preload THEN {"PRELOAD_FIFO_COMMAND_EX"} ELSE {}

\* Lines 50-56: one descriptor per key, with no look at the size of the
\* table; Value is still the zero of line 44.
FillDescriptors(out, preload) ==
    [i \in 1..Len(out) |->
        [ChannelNumber |-> i - 1, ChannelType |-> "OUTPUT_GROUP",
         Command |-> Command(preload), Value |-> 0]]

\* Lines 62-66: every array has the Length of the first key's array.
Homogeneous(out) == \A i \in DOMAIN out : out[i] = out[1]

\* Lines 62 and 76-78: the local nsamples, stored in every descriptor's Value.
BlockLength(out) == out[1]

\* Lines 37-89.  code is what ITC_ReadWriteFIFO returns if it is called.  A
\* mapping with more keys than ITC00_NUMBEROFOUTPUTS makes line 51 write past
\* the table (undefined): survives tells whether the call goes on after it.
WriteOutput(out, preload, code, survives) ==
    IF Len(out) = 0
       THEN [NotCalled EXCEPT !.pc = "returned"]
    ELSE LET filled == FillDescriptors(out, preload)
             valued == [i \in DOMAIN filled |->
                           [filled[i] EXCEPT !.Value = BlockLength(out)]]
         IN  IF Len(out) > ITC00_NUMBEROFOUTPUTS /\ ~survives
                THEN [NotCalled EXCEPT !.pc = "crashed", !.outputData = filled]
             ELSE IF ~Homogeneous(out)
                THEN [NotCalled EXCEPT
                        !.pc = "thrown",
                        !.exception =
                            [msg |-> "Preload sample buffers must be homogenous in length",
                             err |-> ACQ_SUCCESS],
                        !.outputData = filled]
             ELSE [pc |-> IF code # ACQ_SUCCESS THEN "thrown" ELSE "returned",
                   exception |-> IF code # ACQ_SUCCESS
                                    THEN [msg |-> "ITC_ReadWriteFIFO error", err |-> code]
                                    ELSE NoException,
                   calls |-> <<"Transfer">>,
                   codes |-> <<code>>,
                   outputData |-> valued]

\* Lines 27-30.
Preload ==
    /\ wr["Preload"].pc = "entry"
    /\ \E code \in ErrCodes, survives \in BOOLEAN :
         wr' = [wr EXCEPT !["Preload"] = WriteOutput(output, TRUE, code, survives)]
    /\ UNCHANGED <<pc, maxInputs, maxOutputs, nsamples, output, input, token, nIn,
                   nOut, transferBlock, inLog, outLog, result, exception, calls, hw,
                   err, status, lastQuery, entry, phase, cancelPhase, exit>>

\* Lines 32-35.
Write ==
    /\ wr["Write"].pc = "entry"
    /\ \E code \in ErrCodes, survives \in BOOLEAN :
         wr' = [wr EXCEPT !["Write"] = WriteOutput(output, FALSE, code, survives)]
    /\ UNCHANGED <<pc, maxInputs, maxOutputs, nsamples, output, input, token, nIn,
                   nOut, transferBlock, inLog, outLog, result, exception, calls, hw,
                   err, status, lastQuery, entry, phase, cancelPhase, exit>>

NextWrite ==
    \/ Preload
    \/ Write

SpecWrite == InitWrite /\ [][NextWrite]_vars

\* ------------------------------------------------------------------ properties

LoopPcs == {"head", "status", "poll", "in", "out"}

RECURSIVE SumTo(_, _, _)
SumTo(log, i, k) == IF k = 0 THEN 0 ELSE log[k][i] + SumTo(log, i, k - 1)

\* Samples the input transfers of this call moved for input channel i.
Moved(i) == SumTo(inLog, i, Len(inLog))

\* The request breaks a precondition in the sense of the specification.
FailsPrecondition ==
    \/ nsamples < 0
    \/ Len(output) > ITC00_NUMBEROFOUTPUTS
    \/ Len(input) > ITC00_NUMBEROFINPUTS
    \/ Len(output) > maxOutputs
    \/ Len(input) > maxInputs
    \/ \E i \in DOMAIN output : output[i] # nsamples

\* C1: a ReadWrite call whose request fails a precondition (negative nsamples,
\* a channel count over the device capacity or over maxOutputs / maxInputs, an
\* output array whose length is not nsamples) never gets past the checks: it
\* ends in an exception that carries no vendor code, and no vendor call
\* (QueryStatus, PollClock, QueryAvailable, Transfer) has been issued.
C1_ValidationBeforeHardware ==
    FailsPrecondition =>
        /\ pc \in {"entry", "thrown"}
        /\ ~hw
        /\ calls = <<>>
        /\ inLog = <<>> /\ outLog = <<>>
        /\ pc = "thrown" => (exception.msg # "-" /\ exception.err = ACQ_SUCCESS)

\* A request with two output arrays, one of the wrong length, has been refused.
C1_Witness ==
    /\ pc = "thrown"
    /\ FailsPrecondition
    /\ nsamples > 0
    /\ Len(output) = 2
    /\ exception.msg = "Output not correct length"

\* C2: in the loop nIn and nOut never decrease from one step to the next and
\* neither ever exceeds nsamples.
\* (Non-decreasing is stated through the logs, which only grow: each counter
\* is the sum of the advances made so far.)
C2_ProgressMonotoneAndBounded ==
    pc \in LoopPcs =>
        /\ nIn = transferBlock * Len(inLog)
        /\ nOut = transferBlock * Len(outLog)
        /\ nIn <= nsamples
        /\ nOut <= nsamples

\* The caller passed fresh identifiers: every Samples was 0 on entry.
FreshIdentifiers == \A i \in DOMAIN entry : entry[i] = 0

\* C3: when ReadWrite returns, every returned input sequence has the length of
\* that channel's running count and at most the scratch capacity 2*nsamples,
\* for any sequence of availability answers.  Stated for the calls on fresh
\* identifiers, where the lengths are made by this call's transfers alone.
C3_ResultWithinScratch ==
    (pc = "returned" /\ FreshIdentifiers) =>
        \A i \in DOMAIN input :
            /\ result[Ident(input[i])] = input[i].Samples
            /\ result[Ident(input[i])] <= 2 * nsamples

\* C4: when ReadWrite completes, each input channel's Samples equals the
\* number of samples this call's input transfers moved for it, whatever the
\* identifier carried on entry.
C4_SamplesAreMoved ==
    pc = "returned" => \A i \in DOMAIN input : input[i].Samples = Moved(i)

\* The identifiers the caller asked for: channels 0..n-1 of INPUT_GROUP.
RequestedInputs == {<<i - 1, "INPUT_GROUP">> : i \in 1..Len(entry)}

\* C5: for every request that returns a result (loop exhausted or cancelled),
\* the keys of the result are exactly the requested input identifiers: none is
\* missing and no other channel, in particular no output channel, appears.
C5_ResultKeysAreInputs ==
    pc = "returned" =>
        /\ DOMAIN result = RequestedInputs
        /\ \A k \in DOMAIN result : k[2] # "OUTPUT_GROUP"

\* A call with two inputs and an output returned after moving data both ways.
C5_Witness ==
    /\ pc = "returned"
    /\ Len(input) = 2
    /\ Len(output) >= 1
    /\ inLog # <<>>
    /\ outLog # <<>>

\* The fatal states of the specification, bit by bit: RUN clear, or ERROR with
\* an underrun bit, or ERROR with an overflow bit.
FatalState(st) ==
    LET run == "RUN_STATE" \in st.RunningMode
        error == "ERROR_STATE" \in st.RunningMode
        underrun == \/ "ITC_WRITE_UNDERRUN_H" \in st.Overflow
                    \/ "ITC_WRITE_UNDERRUN_S" \in st.Overflow
        overflow == \/ "ITC_READ_OVERFLOW_H" \in st.Overflow
                    \/ "ITC_READ_OVERFLOW_S" \in st.Overflow
    IN  (~run) \/ (error /\ underrun) \/ (error /\ overflow)

\* C6: an iteration whose status query reports a fatal state ends the call
\* with the device-fault exception: QueryStatus is the iteration's only vendor
\* call (no PollClock, QueryAvailable or Transfer follows), no result is
\* returned, however many samples are still outstanding.
C6_FatalStatusAborts ==
    (status # NoStatus /\ FatalState(status)) =>
        /\ pc = "thrown"
        /\ exception.msg = "ITC not running"
        /\ calls = <<"QueryStatus">>
        /\ result = <<>>
        /\ exit = "-"

\* A fatal status met after a first input block, with samples outstanding.
C6_Witness ==
    /\ status # NoStatus
    /\ FatalState(status)
    /\ pc = "thrown"
    /\ Len(inLog) = 1
    /\ nIn < nsamples

\* C7: the status check throws exactly for the fatal states: RUN clear, or
\* ERROR with an underrun bit, or ERROR with an overflow bit; any other status,
\* RUN with ERROR and neither kind of bit included, lets the loop go on.
C7_FatalClassification ==
    status # NoStatus =>
        /\ FatalState(status) <=> (pc = "thrown" /\ exception.msg = "ITC not running")
        /\ ~FatalState(status) <=> pc = "poll"

\* RUN and ERROR both set, no underrun and no overflow bit: the loop goes on.
C7_Witness ==
    /\ pc = "poll"
    /\ status.RunningMode = {"RUN_STATE", "ERROR_STATE"}
    /\ status.Overflow = {}

\* C8: whenever a vendor call of ReadWrite (QueryStatus, QueryAvailable for
\* inputs or outputs, Transfer) returns a non-success code, the call is over
\* with an exception that carries the code.
C8_VendorErrorAborts ==
    (lastQuery.code # ACQ_SUCCESS \/ err # ACQ_SUCCESS) =>
        /\ pc = "thrown"
        /\ exception.err # ACQ_SUCCESS

ReturnedAreMoved(i, length) ==
    LET took == {k \in DOMAIN inLog : inLog[k][i] > 0}
    IN  /\ took = 1..Cardinality(took)
        /\ length = transferBlock * Cardinality(took)

\* C10: a call that ends because cancellation was observed after some blocks
\* were transferred returns normally, and every input channel's sequence holds
\* exactly the samples the input transfers moved for it so far.
C10_CancelReturnsMoved ==
    (exit = "cancelled" /\ (inLog # <<>> \/ outLog # <<>>)) =>
        /\ pc = "returned"
        /\ \A i \in DOMAIN input :
              /\ result[Ident(input[i])] = Moved(i)
              /\ ReturnedAreMoved(i, result[Ident(input[i])])


\* The messages of the two capacity checks (lines 129, 133).
CapacityMessages == {"Too many output channels", "Too many input channels"}

\* A request with both channel counts within the device capacity and every
\* other precondition met.
WithinCapacityOtherwiseValid ==
    /\ nsamples >= 0
    /\ Len(output) <= ITC00_NUMBEROFOUTPUTS
    /\ Len(input) <= ITC00_NUMBEROFINPUTS
    /\ Len(output) <= maxOutputs
    /\ Len(input) <= maxInputs
    /\ \A i \in DOMAIN output : output[i] = nsamples

\* C11: a ReadWrite request whose output and input channel counts are each
\* less than or equal to the device capacity, and which is otherwise valid,
\* is never rejected by a capacity check; in particular a count exactly equal
\* to the capacity is admitted.
C11_CapacityAdmitsEquality ==
    WithinCapacityOtherwiseValid => ~(exception.msg \in CapacityMessages)

\* The messages of the checks of lines 124-175.
ValidationMessages ==
    CapacityMessages \cup
    {"nsamples may not be less than zero.",
     "Output stream number exceeds output stream availability.",
     "Input stream count exceeds input stream availability.",
     "Output not correct length"}

\* C12: a ReadWrite request whose output channel count equals the device
\* capacity never gets past the checks: it ends in a validation exception, and
\* no QueryStatus (nor any other vendor call) has been issued before it.
C12_CountAtCapacityRejected ==
    Len(output) = ITC00_NUMBEROFOUTPUTS =>
        /\ pc \in {"entry", "thrown"}
        /\ ~hw
        /\ calls = <<>>
        /\ pc = "thrown" =>
              /\ exception.msg \in ValidationMessages
              /\ exception.err = ACQ_SUCCESS

C12_Witness ==
    /\ pc = "thrown"
    /\ Len(output) = ITC00_NUMBEROFOUTPUTS
    /\ maxOutputs = ITC00_NUMBEROFOUTPUTS
    /\ nsamples > 0
    /\ \A i \in DOMAIN output : output[i] = nsamples
    /\ exception.msg = "Too many output channels"
    /\ ~hw


\* The mapping holds arrays of different lengths.
HeterogeneousOutput == \E i, j \in DOMAIN output : output[i] # output[j]

WriteEnded(o) == wr[o].pc \in {"returned", "thrown", "crashed"}

\* C13: a Preload or Write call whose mapping holds arrays that do not all
\* have one length ends in the length-mismatch exception and has issued no
\* vendor call, whichever key holds the deviating array.
C13_HeterogeneousRejected ==
    \A o \in WriteOps :
        (HeterogeneousOutput /\ WriteEnded(o)) =>
            /\ wr[o].pc = "thrown"
            /\ wr[o].exception.msg = "Preload sample buffers must be homogenous in length"
            /\ wr[o].calls = <<>>

\* C14: a Preload or Write call with an empty mapping returns without a
\* vendor call; with a non-empty mapping of arrays of one length it issues
\* exactly one Transfer whose descriptors list every key of the mapping once,
\* each with Value equal to the common length, and it throws the code of
\* that Transfer exactly when the code is not the success code.
C14_OneCombinedTransfer ==
    \A o \in WriteOps :
        WriteEnded(o) =>
            /\ output = <<>> => (wr[o].pc = "returned" /\ wr[o].calls = <<>>)
            /\ (output # <<>> /\ ~HeterogeneousOutput) =>
                  /\ wr[o].calls = <<"Transfer">>
                  /\ Len(wr[o].outputData) = Len(output)
                  /\ \A i \in DOMAIN output :
                        /\ wr[o].outputData[i].ChannelNumber = i - 1
                        /\ wr[o].outputData[i].ChannelType = "OUTPUT_GROUP"
                        /\ wr[o].outputData[i].Value = output[i]
                  /\ IF wr[o].codes[1] # ACQ_SUCCESS
                        THEN /\ wr[o].pc = "thrown"
                             /\ wr[o].exception.err = wr[o].codes[1]
                        ELSE wr[o].pc = "returned"

\* A descriptor table without its Command fields.
WithoutCommand(table) ==
    [i \in DOMAIN table |->
        [ChannelNumber |-> table[i].ChannelNumber,
         ChannelType |-> table[i].ChannelType,
         Value |-> table[i].Value]]

\* C15: every descriptor of the Transfer that Preload issues carries the
\* preload flag and no descriptor of the Transfer that Write issues does;
\* called with the same mapping, and given the same answers by the machine
\* (the code the Transfer returns, the fate of an out-of-table write), the
\* two end the same way: same exception or return, same vendor calls, same
\* descriptors apart from the flag.
C15_PreloadFlagOnly ==
    /\ \A o \in WriteOps :
          wr[o].calls # <<>> =>
              \A i \in DOMAIN wr[o].outputData :
                  ("PRELOAD_FIFO_COMMAND_EX" \in wr[o].outputData[i].Command)
                      <=> (o = "Preload")
    /\ ( /\ WriteEnded("Preload") /\ WriteEnded("Write")
         /\ wr["Preload"].codes = wr["Write"].codes
         /\ (wr["Preload"].pc = "crashed") <=> (wr["Write"].pc = "crashed") )
       => /\ wr["Preload"].pc = wr["Write"].pc
          /\ wr["Preload"].exception = wr["Write"].exception
          /\ wr["Preload"].calls = wr["Write"].calls
          /\ WithoutCommand(wr["Preload"].outputData)
                = WithoutCommand(wr["Write"].outputData)

C15_Witness ==
    /\ wr["Preload"].calls = <<"Transfer">>
    /\ wr["Write"].calls = <<"Transfer">>
    /\ Len(output) = 2
    /\ output[1] = 1000
    /\ wr["Preload"].pc = "returned"
    /\ wr["Write"].pc = "returned"
    /\ "PRELOAD_FIFO_COMMAND_EX" \in wr["Preload"].outputData[2].Command
    /\ wr["Write"].outputData[2].Command = {}


\* The request of the example: 1000 samples, one input and one output
\* channel, past the checks (transferBlock is then 512).
Example1000 ==
    /\ nsamples = 1000
    /\ Len(input) = 1
    /\ output = <<1000>>
    /\ pc # "entry"

\* C16: with nsamples = 1000, a transfer block of 512, one input and one
\* output channel and a device that reports at least 512 available on both
\* channels at every query, a ReadWrite call never makes more than 2 Transfers
\* per direction, and a call that runs to the end of its loop (healthy status,
\* no cancellation observed) has made exactly 2 per direction, the output ones
\* with block lengths 512 and then 488.
C16_TwoBlocksPerDirection ==
    Example1000 =>
        /\ transferBlock = 512
        /\ Len(inLog) <= 2 /\ Len(outLog) <= 2
        /\ Len(outLog) >= 1 => outLog[1] = <<512>>
        /\ Len(outLog) >= 2 => outLog[2] = <<488>>
        /\ (pc = "returned" /\ exit = "exhausted") =>
              (Len(inLog) = 2 /\ Len(outLog) = 2)

C16_Witness ==
    /\ Example1000
    /\ pc = "returned"
    /\ exit = "exhausted"
    /\ ~token
    /\ Len(inLog) = 2
    /\ outLog = << <<512>>, <<488>> >>


\* A few identifiers: every (number, type) of the model with several Samples.
Identifiers ==
    [ChannelNumber : 0..ITC00_NUMBEROFINPUTS,
     ChannelType : {"INPUT_GROUP", "OUTPUT_GROUP"},
     Samples : {0, TRANSFER_BLOCK_SAMPLES, 1000}]

\* Equals holds exactly between identifiers of the same number and type, and
\* equal identifiers have the same hash code.
EqualityByNumberAndType ==
    \A a, b \in Identifiers :
        /\ Equals(a, b) <=> (a.ChannelNumber = b.ChannelNumber /\ a.ChannelType = b.ChannelType)
        /\ Equals(a, b) => GetHashCode(a) = GetHashCode(b)

\* C17: two ChannelIdentifier values are equal exactly when their
\* ChannelNumber and ChannelType agree, and then have the same hash code;
\* Samples plays no part.  So in the dictionary ReadWrite returns, whose
\* entries were stored under identifiers with the Samples the call had
\* counted, a lookup with an identifier of the same number and type and any
\* other Samples finds the channel's entry.
C17_IdentityIgnoresSamples ==
    /\ EqualityByNumberAndType
    /\ pc = "returned" =>
          \A i \in DOMAIN input : \A s \in {0, TRANSFER_BLOCK_SAMPLES, 1000} :
              /\ DictGet(ResultEntries(Len(input)), [input[i] EXCEPT !.Samples = s])
                    = {input[i].Samples}
              /\ result[Ident(input[i])] = input[i].Samples

C17_Witness ==
    /\ pc = "returned"
    /\ Len(input) = 2
    /\ entry[2] = 0
    /\ input[2].Samples = 1024
    /\ DictGet(ResultEntries(Len(input)), InputId(1, 0)) = {1024}


\* Something the claim C18 rules out has happened: cancellation was
\* requested, or a vendor call returned a code other than success.
HypothesisBroken ==
    \/ token
    \/ lastQuery.code # ACQ_SUCCESS
    \/ err # ACQ_SUCCESS

\* C18: with the thread running and a device that keeps on reporting, sooner
\* or later, a full block on every input and every output channel, a
\* ReadWrite call in which no cancellation is requested and no vendor call
\* fails eventually leaves its loop and returns a result (the other ways to
\* end are an exception: a failed check, a fatal status, a failed call).
C18_EventuallyReturns ==
    <>(pc = "returned" \/ pc = "thrown" \/ HypothesisBroken)


\* The vendor calls of one complete iteration, in the order of lines 206-268.
IterationOrders ==
    {<<"QueryStatus", "PollClock", "QueryAvailableIn">> \o tin
        \o <<"QueryAvailableOut">> \o tout :
            tin \in {<<>>, <<"TransferIn">>}, tout \in {<<>>, <<"TransferOut">>}}

IsPrefix(p, q) == Len(p) <= Len(q) /\ \A k \in DOMAIN p : p[k] = q[k]

\* C19: the vendor calls of a loop iteration come in one order: QueryStatus
\* first (every iteration fetches the status anew), then exactly one
\* PollClock, then the input availability query, at most one input Transfer,
\* the output availability query, at most one output Transfer; an iteration
\* cut short by an exception has issued a beginning of that order, and an
\* input Transfer never comes after an output Transfer.
C19_CallOrder ==
    /\ \E o \in IterationOrders : IsPrefix(calls, o)
    /\ pc = "status" => calls = <<>>
    /\ pc = "poll" => (calls = <<"QueryStatus">> /\ status # NoStatus)
    /\ pc = "in" => calls = <<"QueryStatus", "PollClock">>
    /\ pc = "out" => \E o \in IterationOrders :
                        IsPrefix(calls, o) /\ calls[Len(calls)] \in {"QueryAvailableIn", "TransferIn"}
    /\ (pc = "head" /\ calls # <<>>) => calls \in IterationOrders

C19_Witness ==
    /\ pc = "head"
    /\ phase = "later"
    /\ calls = <<"QueryStatus", "PollClock", "QueryAvailableIn", "TransferIn",
                 "QueryAvailableOut", "TransferOut">>

\* C20: the token is polled once per iteration, before anything else.  An
\* iteration begins only from the loop test with the token not set, and a
\* loop test that finds the token set goes straight to the return: no vendor
\* call is issued by it (no QueryStatus either, so no exception whatever the
\* state of the device), and nothing is transferred.  A request made while an
\* iteration is running therefore lets at most that iteration's calls happen.
C20_PolledFirstOncePerIteration ==
    [][ /\ (pc # "status" /\ pc' = "status") => (pc = "head" /\ ~token /\ calls' = <<>>)
        /\ (pc = "head" /\ token) =>
              /\ pc' \in {"returned", "crashed"}
              /\ calls' = <<>>
              /\ hw' = hw
              /\ inLog' = inLog /\ outLog' = outLog
              /\ exception' = exception
      ]_vars

C20_Witness ==
    /\ pc = "returned"
    /\ exit = "cancelled"
    /\ cancelPhase = "later"
    /\ calls = <<>>
    /\ exception = NoException
    /\ Len(inLog) = 1 /\ Len(outLog) = 1 /\ nOut < nsamples


\* The last vendor call of the current iteration.
LastCall == IF calls = <<>> THEN "-" ELSE calls[Len(calls)]

\* C21: every descriptor of every input Transfer asks for exactly B samples
\* or for none, B being min(nsamples, 512): a channel the device reported
\* below B gets 0, a channel reported at B or more gets exactly B, and an
\* iteration in which no input channel reaches B issues no input Transfer.
C21_InputBlocksWholeOrNone ==
    /\ pc \in LoopPcs => transferBlock = Min(nsamples, 512)
    /\ \A k \in DOMAIN inLog : \A i \in DOMAIN inLog[k] :
          inLog[k][i] \in {0, transferBlock}
    /\ lastQuery.dir = "in" =>
          IF \E i \in DOMAIN input : lastQuery.raw[i] >= transferBlock
             THEN /\ LastCall = "TransferIn"
                  /\ pc # "thrown" =>
                        inLog[Len(inLog)] =
                            [i \in DOMAIN input |->
                                IF lastQuery.raw[i] >= transferBlock
                                   THEN transferBlock ELSE 0]
             ELSE /\ LastCall = "QueryAvailableIn"
                  /\ pc = "out"

C21_Witness ==
    /\ pc = "out"
    /\ Len(input) = 2
    /\ lastQuery.dir = "in"
    /\ lastQuery.raw = <<transferBlock - 1, transferBlock + 1>>
    /\ transferBlock = 512
    /\ LastCall = "TransferIn"
    /\ inLog[Len(inLog)] = <<0, 512>>


\* C22: after each output availability query, an output channel with free
\* FIFO space s >= 1 and r >= 1 samples still unsent is ready, and the output
\* Transfer of that iteration offers it min(s, B, r) samples: the free space
\* cut to B and then to what is left, also when s is below B.
C22_OutputOffersClampedSpace ==
    (lastQuery.dir = "out" /\ pc = "head") =>
        LET sent == LastCall = "TransferOut"
            before == IF sent THEN nOut - transferBlock ELSE nOut
        IN  \A i \in DOMAIN output :
                (lastQuery.raw[i] >= 1 /\ output[i] - before >= 1) =>
                    /\ sent
                    /\ outLog[Len(outLog)][i] =
                          Min(Min(lastQuery.raw[i], transferBlock), output[i] - before)


\* C23: an output Transfer is issued only while nOut < nsamples (none once
\* the outputs are exhausted, although the loop may run on for the inputs),
\* and every descriptor of an issued output Transfer covers a range
\* [nOut, nOut + length) inside the caller's array: 0 <= length and
\* nOut + length <= nsamples.
C23_OutputTransferInsideArray ==
    /\ \A k \in DOMAIN outLog :
          /\ (k - 1) * transferBlock < nsamples
          /\ \A i \in DOMAIN outLog[k] :
                /\ 0 <= outLog[k][i]
                /\ (k - 1) * transferBlock + outLog[k][i] <= nsamples
    /\ LastCall = "TransferOut" =>
          (IF pc = "thrown" THEN nOut ELSE nOut - transferBlock) < nsamples

C23_Witness ==
    /\ pc = "head"
    /\ nOut >= nsamples
    /\ nIn < nsamples
    /\ outLog # <<>>
    /\ lastQuery.dir = "out"
    /\ \E i \in DOMAIN output : lastQuery.raw[i] >= transferBlock
    /\ LastCall = "QueryAvailableOut"


\* C24: every input Transfer writes inside the scratch vector of its
\* channel: the k-th one, issued with nIn = (k-1)*B, ends at k*B, which is at
\* most 2*nsamples, whatever the device answered and however long the output
\* FIFO stayed full.
C24_InputTransferInsideScratch ==
    \A k \in DOMAIN inLog : k * transferBlock <= 2 * nsamples


\* C25: when ReadWrite has returned with its loop run to the end, no
\* cancellation requested and outputs present, every output channel's
\* nsamples samples were handed to the output Transfers once each and in
\* order: the k-th Transfer, issued at offset (k-1)*B, offered every channel
\* the block that starts there (B samples, or the shorter tail), and the
\* Transfers together reach nsamples; this for every pattern of free-space
\* answers, also when only some channels report room for a block.
C25_EveryOutputSampleSentOnce ==
    (pc = "returned" /\ exit = "exhausted" /\ ~token /\ Len(output) > 0) =>
        /\ Len(outLog) * transferBlock >= nsamples
        /\ \A k \in DOMAIN outLog : \A i \in DOMAIN output :
              outLog[k][i] = Min(transferBlock, nsamples - (k - 1) * transferBlock)


\* C26: for each input channel (of a list of fresh identifiers) the returned
\* sequence is the concatenation, in transfer order, of the blocks the input
\* Transfers delivered for that channel, with no never-written scratch
\* position inside it: the Transfers that delivered a block for the channel
\* are the first ones of the call, so their blocks lie at offsets 0, B, 2B, ...
\* and the sequence's length is B times their number; this for every pattern
\* of availability answers, also when only some input channels have a block.
C26_ReturnedInputHasNoGap ==
    (pc = "returned" /\ FreshIdentifiers) =>
        \A i \in DOMAIN input :
            ReturnedAreMoved(i, result[Ident(input[i])])


\* C27: ReadWrite returns with its loop run to the end only when both
\* directions are exhausted: there is no output or nOut >= nsamples, and there
\* is no input or nIn >= nsamples; and a call with nsamples = 0 that returns
\* has issued no vendor call and returns an empty sequence for every input
\* channel.
C27_ReturnsOnlyWhenExhausted ==
    (pc = "returned" /\ exit = "exhausted") =>
        /\ Len(output) = 0 \/ nOut >= nsamples
        /\ Len(input) = 0 \/ nIn >= nsamples
        /\ nsamples = 0 =>
              /\ ~hw
              /\ \A i \in DOMAIN input : result[Ident(input[i])] = 0


\* What a Transfer changes: the counters, the running sample counts, the
\* scratch contents.
Progress == <<nIn, nOut, input, inLog, outLog>>

\* The availability query just made found no channel with a full block.
NoFullBlock(q) == \A i \in DOMAIN q.raw : q.raw[i] < transferBlock

\* C28: in a loop iteration the status query and the clock poll change
\* neither counter nor any running sample count, and an availability query
\* that finds no channel with a full block is followed by no Transfer and
\* leaves them unchanged as well; the loop test that follows, with the
\* counters where they were and no cancellation requested, starts the next
\* iteration: there is no timeout, so with a device that stays healthy and
\* never reports a full block the call goes round for ever and never returns.
C28_IdleIterationChangesNothing ==
    [][ /\ pc \in {"status", "poll"} => UNCHANGED Progress
        /\ (pc = "in" /\ lastQuery'.dir = "in" /\ NoFullBlock(lastQuery')) =>
              /\ UNCHANGED Progress
              /\ calls' = Append(calls, "QueryAvailableIn")
              /\ pc' = "out"
        /\ (pc = "out" /\ lastQuery'.dir = "out" /\ NoFullBlock(lastQuery')) =>
              /\ UNCHANGED Progress
              /\ calls' = Append(calls, "QueryAvailableOut")
              /\ pc' = "head"
        /\ (pc = "head" /\ LoopCondition /\ ~token) =>
              /\ UNCHANGED Progress
              /\ pc' \in {"head", "status"}
      ]_vars

C28_Witness ==
    /\ pc = "head"
    /\ phase = "later"
    /\ ~token
    /\ LoopCondition
    /\ nIn = 512 /\ nOut = 0
    /\ Len(input) = 1 /\ Len(output) = 1
    /\ calls = <<"QueryStatus", "PollClock", "QueryAvailableIn", "QueryAvailableOut">>
    /\ lastQuery.dir = "out"
    /\ NoFullBlock(lastQuery)


\* A request of fewer samples than one transfer block, past the checks.
ShortRequest ==
    /\ 0 < nsamples
    /\ nsamples < TRANSFER_BLOCK_SAMPLES
    /\ pc \notin {"entry"}
    /\ exception.msg \notin ValidationMessages

\* C29: for a request with 0 < nsamples < 512 the block size is nsamples: a
\* channel is ready as soon as the device reports nsamples for it, no
\* descriptor of any Transfer asks for more than nsamples samples, and each
\* direction is done after exactly one Transfer of nsamples samples (never a
\* second one; exactly one when the loop has run to its end).
C29_ShortRequestOneBlock ==
    ShortRequest =>
        /\ transferBlock = nsamples
        /\ \A k \in DOMAIN inLog : \A i \in DOMAIN input : inLog[k][i] <= nsamples
        /\ \A k \in DOMAIN outLog : \A i \in DOMAIN output : outLog[k][i] <= nsamples
        /\ Len(inLog) <= 1
        /\ Len(outLog) <= 1
        /\ (pc = "returned" /\ exit = "exhausted") =>
              /\ Len(input) > 0 => Len(inLog) = 1
              /\ Len(output) > 0 => Len(outLog) = 1


\* C30: no operation fills in, or passes to a vendor call, more channel
\* descriptors than the device capacity of the direction: ReadWrite is past
\* its checks only with counts within the capacities, and a Preload or Write
\* whose mapping holds more channels than ITC00_NUMBEROFOUTPUTS fills no
\* descriptor beyond the table of that size and issues no Transfer.
C30_DescriptorsWithinCapacity ==
    /\ pc \in LoopPcs =>
          /\ Len(output) <= ITC00_NUMBEROFOUTPUTS
          /\ Len(input) <= ITC00_NUMBEROFINPUTS
    /\ \A o \in WriteOps :
          /\ Len(wr[o].outputData) <= ITC00_NUMBEROFOUTPUTS
          /\ Len(output) > ITC00_NUMBEROFOUTPUTS => wr[o].calls = <<>>

====
